---------------------------- MODULE Spec2Model ----------------------------
(***************************************************************************)
(* Model of enderchest-gui's common package:                               *)
(*   - common/config.py : the Config store (register / list / write /      *)
(*                        from_config)                                     *)
(*   - common/stack.py  : the runtime-stack report (rsync probe, package   *)
(*                        versions)                                        *)
(*                                                                         *)
(* Strings are sequences of characters; a character is a one-symbol atom   *)
(* ("U1F600" stands for the single non-BMP code point U+1F600).  A Path    *)
(* is represented by its normalised string, as pathlib keeps it.           *)
(***************************************************************************)
EXTENDS Integers, Sequences, FiniteSets, TLC

VARIABLES
    config,   \* the Config object the caller holds: [chests, saves]
    last,     \* the last call made on the store: [op, arg, raised, ret, log]
    report    \* the last call made on the stack reporter

vars == <<config, last, report>>

---------------------------------------------------------------------------
(* Characters and strings *)

\* Python's ord() for the characters the model uses
Ord(c) ==
    CASE c = " "  -> 32
      [] c = "\"" -> 34
      [] c = "."  -> 46
      [] c = "/"  -> 47
      [] c = "0"  -> 48
      [] c = "1"  -> 49
      [] c = "2"  -> 50
      [] c = "3"  -> 51
      [] c = "4"  -> 52
      [] c = "5"  -> 53
      [] c = "6"  -> 54
      [] c = "7"  -> 55
      [] c = "8"  -> 56
      [] c = "9"  -> 57
      [] c = ":"  -> 58
      [] c = "\\" -> 92
      [] c = "a"  -> 97
      [] c = "c"  -> 99
      [] c = "e"  -> 101
      [] c = "h"  -> 104
      [] c = "i"  -> 105
      [] c = "m"  -> 109
      [] c = "n"  -> 110
      [] c = "o"  -> 111
      [] c = "p"  -> 112
      [] c = "r"  -> 114
      [] c = "s"  -> 115
      [] c = "t"  -> 116
      [] c = "v"  -> 118
      [] c = "x"  -> 120
      [] c = "y"  -> 121
      [] c = "~"  -> 126
      [] c = "U1F600" -> 128512
      [] OTHER -> 0

\* str.__lt__ : lexicographic order on code points
RECURSIVE StrLess(_, _)
StrLess(s, t) ==
    IF t = <<>> THEN FALSE
    ELSE IF s = <<>> THEN TRUE
    ELSE IF Ord(Head(s)) # Ord(Head(t)) THEN Ord(Head(s)) < Ord(Head(t))
    ELSE StrLess(Tail(s), Tail(t))

\* sorted(set(value)) on a list of strings
RECURSIVE SortSet(_)
SortSet(S) ==
    IF S = {} THEN <<>>
    ELSE LET m == CHOOSE x \in S : \A y \in S : x = y \/ StrLess(x, y)
         IN  <<m>> \o SortSet(S \ {m})

Range(seq) == {seq[i] : i \in 1..Len(seq)}

---------------------------------------------------------------------------
(* pathlib.Path *)

\* the components of a string between "/" separators (empty ones included)
RECURSIVE SplitSlash(_, _)
SplitSlash(s, cur) ==
    IF s = <<>> THEN <<cur>>
    ELSE IF Head(s) = "/" THEN <<cur>> \o SplitSlash(Tail(s), <<>>)
    ELSE SplitSlash(Tail(s), Append(cur, Head(s)))

RECURSIVE DropEmpty(_)
DropEmpty(parts) ==
    IF parts = <<>> THEN <<>>
    ELSE IF Head(parts) = <<>> \/ Head(parts) = <<".">> THEN DropEmpty(Tail(parts))
    ELSE <<Head(parts)>> \o DropEmpty(Tail(parts))

RECURSIVE JoinSlash(_)
JoinSlash(parts) ==
    IF parts = <<>> THEN <<>>
    ELSE IF Len(parts) = 1 THEN Head(parts)
    ELSE Head(parts) \o <<"/">> \o JoinSlash(Tail(parts))

IsAbs(s) == s # <<>> /\ s[1] = "/"

\* the name components of a path string (root excluded)
Parts(s) == DropEmpty(SplitSlash(s, <<>>))

\* str(PurePosixPath) from root flag and components
PathStr(abs, parts) ==
    IF abs THEN <<"/">> \o JoinSlash(parts)
    ELSE IF parts = <<>> THEN <<".">>
    ELSE JoinSlash(parts)

\* Path(s): repeated and trailing separators and "." components collapse
Path(s) == PathStr(IsAbs(s), Parts(s))

\* Path.parent
Parent(p) ==
    LET ps == Parts(p)
    IN  IF ps = <<>> THEN p
        ELSE PathStr(IsAbs(p), SubSeq(ps, 1, Len(ps) - 1))

\* the home directory of the running user ($HOME)
Home == <<"/", "h">>

\* Path.expanduser raises RuntimeError ("Could not determine home
\* directory") for "~user" when the system knows no such user
expanduser_raises(p) ==
    LET ps == Parts(p)
    IN  /\ ~IsAbs(p)
        /\ ps # <<>>
        /\ Head(ps)[1] = "~"
        /\ Head(ps) # <<"~">>

\* Path.expanduser: a leading "~" component becomes the home directory
expanduser(p) ==
    LET ps == Parts(p)
    IN  IF ~IsAbs(p) /\ ps # <<>> /\ Head(ps) = <<"~">>
        THEN PathStr(TRUE, Parts(Home) \o Tail(ps))
        ELSE p

---------------------------------------------------------------------------
(* dict: insertion-ordered mapping, a sequence of [key, val] with distinct keys *)

Keys(d) == {d[i].key : i \in 1..Len(d)}

KeyList(d) == [i \in 1..Len(d) |-> d[i].key]

Values(d) == [i \in 1..Len(d) |-> d[i].val]

\* a dict that forgets the position of a key it is given again
DictSet_reinserts(d, k, v) ==
    Append(SelectSeq(d, LAMBDA e : e.key # k), [key |-> k, val |-> v])

\* d[k] = v : an existing key keeps its position, a new key goes last
DictSet(d, k, v) ==
    IF k \in Keys(d)
    THEN [i \in 1..Len(d) |-> IF d[i].key = k THEN [key |-> k, val |-> v] ELSE d[i]]
    ELSE Append(d, [key |-> k, val |-> v])

---------------------------------------------------------------------------
(* The collaborators: EnderChest.from_cfg and gsb's Manifest.of.  What a   *)
(* lookup of a directory answers is an input of the call.                  *)

\* number of distinct descriptor contents a directory can hold over time
NumRevs == 2

Errors == {"ValueError", "OSError"}

Outcomes ==
    {[err |-> e, rev |-> 0] : e \in Errors}
        \cup {[err |-> "none", rev |-> r] : r \in 1..NumRevs}

\* nothing is found at a directory the file system does not have
Missing == [err |-> "OSError", rev |-> 0]

\* what a collaborator answers for directory dir when the file system is f
Answer(f, dir) == IF dir \in DOMAIN f THEN f[dir] ELSE Missing

\* EnderChest.from_cfg(ender_chest_config(dir)) when it succeeds
EnderChest(dir, rev) == [root |-> dir, rev |-> rev]

\* GSB_Manifest.of(dir) when it succeeds: a manifest whose root is dir
GSB_Manifest(dir, rev) == [root |-> dir, rev |-> rev]

---------------------------------------------------------------------------
(* Config *)

NoError == "none"

\* a registration that stores the entry before it validates the path
register_enderchest_stores_first(cfg, minecraft_root, outcome) ==
    IF expanduser_raises(minecraft_root)
    THEN [raised |-> "RuntimeError", cfg |-> cfg]
    ELSE [raised |-> outcome.err,
          cfg |-> [cfg EXCEPT !.chests =
                      DictSet(@, minecraft_root,
                              EnderChest(expanduser(minecraft_root), outcome.rev))]]

\* Config.register_enderchest: [raised, cfg]
register_enderchest(cfg, minecraft_root, outcome) ==
    IF expanduser_raises(minecraft_root)
    THEN [raised |-> "RuntimeError", cfg |-> cfg]
    ELSE IF outcome.err # NoError
    THEN [raised |-> outcome.err, cfg |-> cfg]
    ELSE [raised |-> NoError,
          cfg |-> [cfg EXCEPT !.chests =
                      DictSet(@, minecraft_root,
                              EnderChest(expanduser(minecraft_root), outcome.rev))]]

\* a registration that keys the save by the path it was given
register_save_by_path(cfg, manifest_path, outcome) ==
    IF expanduser_raises(manifest_path)
    THEN [raised |-> "RuntimeError", cfg |-> cfg]
    ELSE IF outcome.err # NoError
    THEN [raised |-> outcome.err, cfg |-> cfg]
    ELSE LET save == GSB_Manifest(Parent(expanduser(manifest_path)), outcome.rev)
         IN  [raised |-> NoError,
              cfg |-> [cfg EXCEPT !.saves = DictSet(@, manifest_path, save)]]

\* Config.register_save: [raised, cfg]
register_save(cfg, manifest_path, outcome) ==
    IF expanduser_raises(manifest_path)
    THEN [raised |-> "RuntimeError", cfg |-> cfg]
    ELSE IF outcome.err # NoError
    THEN [raised |-> outcome.err, cfg |-> cfg]
    ELSE LET save == GSB_Manifest(Parent(expanduser(manifest_path)), outcome.rev)
         IN  [raised |-> NoError,
              cfg |-> [cfg EXCEPT !.saves = DictSet(@, save.root, save)]]

EmptyConfig == [chests |-> <<>>, saves |-> <<>>]

\* Config.__init__ with $MINECRAFT_ROOT = env (<<>> when unset or empty):
\* [raised, cfg, log]
Config(env, outcome) ==
    IF env = <<>>
    THEN [raised |-> NoError, cfg |-> EmptyConfig, log |-> <<>>]
    ELSE LET r == register_enderchest(EmptyConfig, Path(env), outcome)
         IN  IF r.raised \in Errors
             THEN [raised |-> NoError, cfg |-> EmptyConfig,
                   log |-> <<[msg |-> "chest", path |-> env]>>]
             ELSE [raised |-> r.raised, cfg |-> r.cfg, log |-> <<>>]

\* Config.ender_chests
ender_chests(cfg) == Values(cfg.chests)

\* Config.saves
saves(cfg) == Values(cfg.saves)

---------------------------------------------------------------------------
(* The configuration file: the writer (_to_toml over json.dumps) and the   *)
(* reader (tomllib.loads).  A rendered string is its sequence of source    *)
(* characters; a \uXXXX escape is one unit.                                *)

\* json.dumps of one character (ensure_ascii): quote and backslash get a
\* backslash, a non-BMP character becomes a surrogate pair of \u escapes
JsonEscape(c) ==
    CASE c = "\""     -> <<"\\", "\"">>
      [] c = "\\"     -> <<"\\", "\\">>
      [] c = "U1F600" -> <<"\\ud83d", "\\ude00">>
      [] OTHER        -> <<c>>

RECURSIVE JsonEscapeAll(_)
JsonEscapeAll(s) ==
    IF s = <<>> THEN <<>> ELSE JsonEscape(Head(s)) \o JsonEscapeAll(Tail(s))

\* json.dumps(str)
JsonDumps(s) == <<"\"">> \o JsonEscapeAll(s) \o <<"\"">>

\* get_versions()["version"]
Version == <<"0", ".", "1">>

\* dt.datetime.now().isoformat(sep=" ")
Now == <<"2", "0", "2", "3", " ", "1", "2">>

\* a writer that emits the lists in the order it is given them
_to_toml_unsorted(as_dict) ==
    [generated_by_enderchest_gui |-> JsonDumps(as_dict.generated_by_enderchest_gui),
     last_modified |-> JsonDumps(as_dict.last_modified),
     ender_chests |-> [i \in 1..Len(as_dict.ender_chests) |->
                          JsonDumps(as_dict.ender_chests[i])],
     saves |-> [i \in 1..Len(as_dict.saves) |-> JsonDumps(as_dict.saves[i])]]

\* _to_toml: strings are dumped as they are, lists sorted and de-duplicated
_to_toml(as_dict) ==
    [generated_by_enderchest_gui |-> JsonDumps(as_dict.generated_by_enderchest_gui),
     last_modified |-> JsonDumps(as_dict.last_modified),
     ender_chests |->
        LET sorted == SortSet(Range(as_dict.ender_chests))
        IN  [i \in 1..Len(sorted) |-> JsonDumps(sorted[i])],
     saves |->
        LET sorted == SortSet(Range(as_dict.saves))
        IN  [i \in 1..Len(sorted) |-> JsonDumps(sorted[i])]]

\* Config.write: the rendering it returns (and writes to config_file)
write(cfg) ==
    _to_toml([generated_by_enderchest_gui |-> Version,
              last_modified |-> Now,
              ender_chests |-> KeyList(cfg.chests),
              saves |-> KeyList(cfg.saves)])

\* the \u escapes of surrogate code points, which TOML does not accept
SurrogateEscapes == {"\\ud83d", "\\ude00"}

\* tomllib: the body of a basic string; [ok, str]
RECURSIVE TomlBody(_)
TomlBody(units) ==
    IF units = <<>> THEN [ok |-> TRUE, str |-> <<>>]
    ELSE IF Head(units) \in SurrogateEscapes \/ Head(units) = "\""
    THEN [ok |-> FALSE, str |-> <<>>]
    ELSE IF Head(units) = "\\"
    THEN IF Len(units) >= 2 /\ units[2] \in {"\"", "\\"}
         THEN LET rest == TomlBody(Tail(Tail(units)))
              IN  [ok |-> rest.ok, str |-> <<units[2]>> \o rest.str]
         ELSE [ok |-> FALSE, str |-> <<>>]
    ELSE LET rest == TomlBody(Tail(units))
         IN  [ok |-> rest.ok, str |-> <<Head(units)>> \o rest.str]

\* tomllib: one basic string, quotes included; [ok, str]
TomlString(units) ==
    IF Len(units) >= 2 /\ Head(units) = "\"" /\ units[Len(units)] = "\""
    THEN TomlBody(SubSeq(units, 2, Len(units) - 1))
    ELSE [ok |-> FALSE, str |-> <<>>]

\* tomllib.loads: [ok, ender_chests, saves]; not ok is TOMLDecodeError
TomlLoads(doc) ==
    LET all == <<doc.generated_by_enderchest_gui, doc.last_modified>>
                   \o doc.ender_chests \o doc.saves
    IN  [ok |-> \A i \in 1..Len(all) : TomlString(all[i]).ok,
         ender_chests |-> [i \in 1..Len(doc.ender_chests) |->
                              TomlString(doc.ender_chests[i]).str],
         saves |-> [i \in 1..Len(doc.saves) |-> TomlString(doc.saves[i]).str]]

\* the chest loop of from_config: [raised, cfg, log]
RECURSIVE LoadChests(_, _, _)
LoadChests(entries, st, fs) ==
    IF entries = <<>> \/ st.raised # NoError THEN st
    ELSE LET minecraft_root == Path(Head(entries))
             r == register_enderchest(st.cfg, minecraft_root,
                                      Answer(fs.chest, expanduser(minecraft_root)))
             next == IF r.raised \in Errors
                     THEN [st EXCEPT !.log = Append(@, [msg |-> "chest",
                                                        path |-> Head(entries)])]
                     ELSE [st EXCEPT !.cfg = r.cfg, !.raised = r.raised]
         IN  LoadChests(Tail(entries), next, fs)

\* the save loop of from_config: [raised, cfg, log]
RECURSIVE LoadSaves(_, _, _)
LoadSaves(entries, st, fs) ==
    IF entries = <<>> \/ st.raised # NoError THEN st
    ELSE LET manifest_path == Path(Head(entries))
             r == register_save(st.cfg, manifest_path,
                                Answer(fs.save, Parent(expanduser(manifest_path))))
             next == IF r.raised \in Errors
                     THEN [st EXCEPT !.log = Append(@, [msg |-> "save",
                                                        path |-> Head(entries)])]
                     ELSE [st EXCEPT !.cfg = r.cfg, !.raised = r.raised]
         IN  LoadSaves(Tail(entries), next, fs)

\* Config.from_config on a file holding doc, with $MINECRAFT_ROOT = env and
\* the collaborators answering fs during the call: [raised, cfg, log]
from_config(doc, env, fs) ==
    LET as_dict == TomlLoads(doc)
    IN  IF ~as_dict.ok
        THEN [raised |-> "TOMLDecodeError", cfg |-> EmptyConfig, log |-> <<>>]
        ELSE LET made == Config(env, Answer(fs.chest, expanduser(Path(env))))
             IN  LoadSaves(as_dict.saves,
                           LoadChests(as_dict.ender_chests, made, fs), fs)

---------------------------------------------------------------------------
(* The paths and files the calls are made with *)

TildeA   == <<"~", "/", "a", "\"">>
HomeA    == <<"/", "h", "/", "a", "\"">>
HomeASl  == <<"/", "h", "/", "a", "\"", "/">>
TildeX   == <<"~", "x">>

TildeM   == <<"~", "/", "m">>
HomeM    == <<"/", "h", "/", "m">>
RootM    == <<"/", "m">>

ChestArgs == {TildeA, HomeA, TildeX}
SaveArgs  == {TildeM, HomeM, RootM}
EnvValues == {<<>>, TildeA, TildeX}

ChestDirs == {HomeA}
SaveDirs  == {Home, <<"/">>}

\* a basic string typed into a configuration file by hand
Typed(s) == <<"\"">> \o s \o <<"\"">>

\* a configuration file written by hand: its lists, in the order given
HandWritten(chests, savelist) ==
    [generated_by_enderchest_gui |-> JsonDumps(Version),
     last_modified |-> JsonDumps(Now),
     ender_chests |-> chests,
     saves |-> savelist]

HandWrittenFiles ==
    {HandWritten(<<JsonDumps(TildeA), JsonDumps(HomeASl)>>, <<>>),
     HandWritten(<<Typed(TildeX), JsonDumps(HomeA)>>, <<Typed(HomeM)>>),
     HandWritten(<<Typed(<<"/", "\\ud83d", "\\ude00">>)>>, <<>>)}

\* the entries of a list up to the first one whose expansion raises
RECURSIVE Tried(_)
Tried(entries) ==
    IF entries = <<>> THEN <<>>
    ELSE IF expanduser_raises(Path(Head(entries))) THEN <<>>
    ELSE <<Head(entries)>> \o Tried(Tail(entries))

\* the directories a load of doc looks up
LookedChests(doc, env) ==
    LET d == TomlLoads(doc)
        tried == Tried(<<env>> \o d.ender_chests)
    IN  IF ~d.ok THEN {}
        ELSE {expanduser(Path(tried[i])) : i \in 1..Len(tried)} \cap ChestDirs

LookedSaves(doc, env) ==
    LET d == TomlLoads(doc)
        tried == Tried(d.saves)
    IN  IF ~d.ok \/ Len(Tried(<<env>> \o d.ender_chests)) <= Len(d.ender_chests)
        THEN {}
        ELSE {Parent(expanduser(Path(tried[i]))) : i \in 1..Len(tried)} \cap SaveDirs

\* the file systems a load of doc can meet (directories it does not look
\* at are left out: they hold nothing)
FileSystems(doc, env) ==
    {[chest |-> c, save |-> s] :
        c \in [LookedChests(doc, env) -> Outcomes],
        s \in [LookedSaves(doc, env) -> Outcomes]}

\* what the collaborator can answer when path is registered: it is not
\* called when the expansion of the path raises
Answers(path) == IF expanduser_raises(path) THEN {Missing} ELSE Outcomes

---------------------------------------------------------------------------
(* The calls on the store *)

Idle == [op |-> "none", raised |-> NoError, ret |-> <<>>]

Call(op, arg, raised, ret, log) ==
    [op |-> op, arg |-> arg, raised |-> raised, ret |-> ret, log |-> log]

Init ==
    /\ \E env \in EnvValues :
          \E outcome \in IF env = <<>> THEN {Missing} ELSE Answers(Path(env)) :
          LET made == Config(env, outcome)
          IN  /\ made.raised = NoError
              /\ config = made.cfg
              /\ last = Call("Config", [env |-> env, answer |-> outcome],
                              NoError, <<>>, made.log)
    /\ report = Idle

\* config = Config()
Construct ==
    /\ \E env \in EnvValues :
          \E outcome \in IF env = <<>> THEN {Missing} ELSE Answers(Path(env)) :
          LET made == Config(env, outcome)
          IN  /\ config' = IF made.raised = NoError THEN made.cfg ELSE config
              /\ last' = Call("Config", [env |-> env, answer |-> outcome],
                               made.raised, <<>>, made.log)
    /\ UNCHANGED report

\* config.register_enderchest(minecraft_root)
RegisterEnderchest ==
    /\ \E minecraft_root \in ChestArgs :
          \E outcome \in Answers(minecraft_root) :
          LET r == register_enderchest(config, minecraft_root, outcome)
          IN  /\ config' = r.cfg
              /\ last' = Call("register_enderchest",
                               [path |-> minecraft_root, answer |-> outcome],
                               r.raised, <<>>, <<>>)
    /\ UNCHANGED report

\* config.register_save(manifest_path)
RegisterSave ==
    /\ \E manifest_path \in SaveArgs :
          \E outcome \in Answers(manifest_path) :
          LET r == register_save(config, manifest_path, outcome)
          IN  /\ config' = r.cfg
              /\ last' = Call("register_save",
                               [path |-> manifest_path, answer |-> outcome],
                               r.raised, <<>>, <<>>)
    /\ UNCHANGED report

\* config.ender_chests
ListChests ==
    /\ last' = Call("ender_chests", <<>>, NoError, ender_chests(config), <<>>)
    /\ UNCHANGED <<config, report>>

\* config.saves
ListSaves ==
    /\ last' = Call("saves", <<>>, NoError, saves(config), <<>>)
    /\ UNCHANGED <<config, report>>

\* config.write(config_file)
Write ==
    /\ last' = Call("write", <<>>, NoError, write(config), <<>>)
    /\ UNCHANGED <<config, report>>

\* config = Config.from_config(config_file), the file holding either what
\* the store writes or hand-written lists
FromConfig ==
    /\ \E env \in {<<>>, TildeA} :
          \E doc \in {write(config)} \cup (IF env = <<>> THEN HandWrittenFiles ELSE {}) :
          \E fs \in FileSystems(doc, env) :
             LET r == from_config(doc, env, fs)
             IN  /\ config' = IF r.raised = NoError THEN r.cfg ELSE config
                 /\ last' = Call("from_config",
                                 [doc |-> doc, env |-> env, fs |-> fs],
                                 r.raised, <<>>, r.log)
    /\ UNCHANGED report

Next ==
    \/ Construct
    \/ RegisterEnderchest
    \/ RegisterSave
    \/ ListChests
    \/ ListSaves
    \/ Write
    \/ FromConfig

Spec == Init /\ [][Next]_vars

---------------------------------------------------------------------------
(* stack.py: the rsync probe *)

DigitChars == {"0", "1", "2", "3", "4", "5", "6", "7", "8", "9"}

IsDigits(s) == s # <<>> /\ \A i \in 1..Len(s) : s[i] \in DigitChars

\* int() of a string of decimal digits
RECURSIVE ToInt(_)
ToInt(s) ==
    IF s = <<>> THEN 0
    ELSE 10 * ToInt(SubSeq(s, 1, Len(s) - 1)) + (Ord(s[Len(s)]) - 48)

StartsWith(s, prefix) ==
    Len(s) >= Len(prefix) /\ SubSeq(s, 1, Len(prefix)) = prefix

Drop(s, n) == SubSeq(s, n + 1, Len(s))

RECURSIVE LStrip(_)
LStrip(s) == IF s # <<>> /\ Head(s) = " " THEN LStrip(Tail(s)) ELSE s

RECURSIVE RStrip(_)
RStrip(s) ==
    IF s # <<>> /\ s[Len(s)] = " " THEN RStrip(SubSeq(s, 1, Len(s) - 1)) ELSE s

\* str.strip
Strip(s) == RStrip(LStrip(s))

RsyncWord   == <<"r", "s", "y", "n", "c">>
VersionWord == <<"v", "e", "r", "s", "i", "o", "n", " ">>

\* the length of the longest run of digits s starts with
RECURSIVE DigitRun(_)
DigitRun(s) ==
    IF s # <<>> /\ Head(s) \in DigitChars THEN 1 + DigitRun(Tail(s)) ELSE 0

\* ([0-9]+).([0-9]+).([0-9]+) matched at the start of s with the first
\* group k1 and the second k2 characters long ("." matches any character)
NumbersFit(s, k1, k2) ==
    /\ k1 + k2 + 3 <= Len(s)
    /\ IsDigits(SubSeq(s, 1, k1))
    /\ IsDigits(SubSeq(s, k1 + 2, k1 + 1 + k2))
    /\ s[k1 + k2 + 3] \in DigitChars

\* re.match(r"^rsync[\s]+version ([0-9]+).([0-9]+).([0-9]+)", head):
\* [matched, groups, span], each group as long as backtracking allows
RsyncMatch(head) ==
    LET afterName == Drop(head, Len(RsyncWord))
        afterGap  == LStrip(afterName)
        numbers   == Drop(afterGap, Len(VersionWord))
        sizes     == 1..Len(numbers)
        fits      == /\ StartsWith(head, RsyncWord)
                     /\ afterGap # afterName
                     /\ StartsWith(afterGap, VersionWord)
                     /\ \E k1, k2 \in sizes : NumbersFit(numbers, k1, k2)
        K1 == CHOOSE k1 \in sizes :
                 /\ \E k2 \in sizes : NumbersFit(numbers, k1, k2)
                 /\ \A j \in sizes : (\E k2 \in sizes : NumbersFit(numbers, j, k2)) => j <= k1
        K2 == CHOOSE k2 \in sizes :
                 /\ NumbersFit(numbers, K1, k2)
                 /\ \A j \in sizes : NumbersFit(numbers, K1, j) => j <= k2
        K3 == DigitRun(Drop(numbers, K1 + K2 + 2))
    IN  IF fits
        THEN [matched |-> TRUE,
              groups |-> <<SubSeq(numbers, 1, K1),
                           SubSeq(numbers, K1 + 2, K1 + 1 + K2),
                           SubSeq(numbers, K1 + K2 + 3, K1 + K2 + 2 + K3)>>,
              span |-> <<1, Len(head) - Len(numbers) + K1 + K2 + 2 + K3>>]
        ELSE [matched |-> FALSE, groups |-> <<>>, span |-> <<>>]

\* a run of ["rsync", "--version"]: how subprocess.run ends, and the
\* captured streams (lines is stdout decoded and split)
RsyncRun(kind, decodable, lines, stderr) ==
    [kind |-> kind, decodable |-> decodable, lines |-> lines, stderr |-> stderr]

\* _get_rsync_version: [raised, ret]
_get_rsync_version(run) ==
    IF run.kind = "FileNotFoundError" THEN [raised |-> NoError, ret |-> <<>>]
    ELSE IF run.kind = "PermissionError" THEN [raised |-> "PermissionError", ret |-> <<>>]
    ELSE IF run.stderr = "undecodable" THEN [raised |-> "UnicodeDecodeError", ret |-> <<>>]
    ELSE IF ~run.decodable THEN [raised |-> "UnicodeDecodeError", ret |-> <<>>]
    ELSE IF run.lines = <<>> THEN [raised |-> NoError, ret |-> <<>>]
    ELSE LET head  == run.lines[1]
             match == RsyncMatch(head)
         IN  IF match.matched
             THEN IF ToInt(match.groups[1]) < 3
                       \/ (ToInt(match.groups[1]) = 3 /\ ToInt(match.groups[2]) < 2)
                  THEN [raised |-> NoError, ret |-> <<>>]
                  ELSE [raised |-> NoError, ret |-> Strip(Drop(head, Len(RsyncWord)))]
             ELSE [raised |-> NoError, ret |-> <<>>]

\* platform.uname() and sys.version on the machine
Uname == [system |-> "Linux", release |-> "6.1", machine |-> "x86_64"]
SysVersion == "3.11.6"

\* get_stack: [raised, ret]
get_stack(run) ==
    LET rsync == _get_rsync_version(run)
    IN  [raised |-> rsync.raised,
         ret |-> [os |-> <<Uname.system, " ", Uname.release>>,
                  architecture |-> <<Uname.machine>>,
                  Python |-> <<SysVersion>>,
                  Rsync |-> rsync.ret]]

REQUIRED_PY_DEPENDENCIES == <<"enderchest", "gsb", "pygit2">>
OPTIONAL_PY_DEPENDENCIES == <<"paramiko", "pytest">>

Components == REQUIRED_PY_DEPENDENCIES \o OPTIONAL_PY_DEPENDENCIES

\* how importlib.import_module(component).__version__ can end
ImportOutcomes == {"version", "ModuleNotFoundError", "AttributeError", "ImportError"}

\* the __version__ a package exposes
PackageVersion == <<"1", ".", "0">>

\* the loop of get_dependency_versions over the components from i on:
\* [raised, ret]
RECURSIVE ReportFrom(_, _, _)
ReportFrom(i, imports, st) ==
    IF i > Len(Components) \/ st.raised # NoError THEN st
    ELSE LET component == Components[i]
             got == imports[component]
         IN  ReportFrom(i + 1, imports,
                IF got = "version"
                THEN [st EXCEPT !.ret = @ @@ (component :> PackageVersion)]
                ELSE IF got \in {"ModuleNotFoundError", "AttributeError"}
                THEN [st EXCEPT !.ret = @ @@ (component :> <<>>)]
                ELSE [st EXCEPT !.raised = got])

\* get_dependency_versions: [raised, ret]
get_dependency_versions(imports) ==
    ReportFrom(1, imports, [raised |-> NoError, ret |-> <<>>])

---------------------------------------------------------------------------
(* The machines the stack report runs on *)

\* the largest major and minor version number an rsync reports
MaxVersionNumber == 4

Digit(n) == CHOOSE c \in DigitChars : Ord(c) = 48 + n

Spaces(n) == [i \in 1..n |-> " "]

Banner == <<" ", " ", "p", "r", "o", "t", "o", "c", "o", "l", " ", "3", "1">>

\* "rsync<gap>version <major><sep><minor><sep>0<tail>"
VersionLine(gap, major, minor, sep, tail) ==
    RsyncWord \o Spaces(gap) \o VersionWord
        \o <<Digit(major), sep, Digit(minor), sep, "0">> \o tail

Heads ==
    {VersionLine(gap, major, minor, sep, tail) :
        gap \in {0, 1, 2}, major \in 2..MaxVersionNumber,
        minor \in 1..MaxVersionNumber, sep \in {".", "x"}, tail \in {<<>>, Banner}}
    \cup {RsyncWord \o <<" ">> \o VersionWord \o <<"2", ".", "9", ".", "1">>,
          RsyncWord \o <<" ">> \o VersionWord \o <<"3", ".", "2", ".", "0">>,
          RsyncWord \o <<" ">> \o VersionWord \o <<"3", ".", "1", "0", ".", "1">>,
          RsyncWord \o <<" ">> \o VersionWord \o <<"1", "0", ".", "0", ".", "0">>,
          RsyncWord \o <<" ">> \o VersionWord \o <<"3", "2", "3", "0", "5">>,
          RsyncWord \o <<" ">> \o VersionWord,
          <<"o", "p", "e", "n">> \o RsyncWord \o <<":", " ">> \o VersionWord \o <<"2", "9">>,
          <<>>}

RsyncRuns ==
    {RsyncRun(kind, TRUE, <<>>, "empty") : kind \in {"FileNotFoundError", "PermissionError"}}
    \cup {RsyncRun("ran", FALSE, <<>>, stderr) : stderr \in {"empty", "text"}}
    \cup {RsyncRun("ran", TRUE, <<>>, stderr) : stderr \in {"empty", "text", "undecodable"}}
    \cup {RsyncRun("ran", TRUE, <<head>>, stderr) :
             head \in Heads, stderr \in {"empty", "text", "undecodable"}}

Asked(op, arg, r) == [op |-> op, arg |-> arg, raised |-> r.raised, ret |-> r.ret]

InitStack ==
    /\ config = EmptyConfig
    /\ last = Call("Config", [env |-> <<>>, answer |-> Missing],
                    NoError, <<>>, <<>>)
    /\ report = Idle

\* stack._get_rsync_version()
GetRsyncVersion ==
    /\ \E run \in RsyncRuns :
          report' = Asked("_get_rsync_version", run, _get_rsync_version(run))
    /\ UNCHANGED <<config, last>>

\* stack.get_stack()
GetStack ==
    /\ \E run \in RsyncRuns : report' = Asked("get_stack", run, get_stack(run))
    /\ UNCHANGED <<config, last>>

\* stack.get_dependency_versions()
GetDependencyVersions ==
    /\ \E imports \in [Range(Components) -> ImportOutcomes] :
          report' = Asked("get_dependency_versions", imports,
                          get_dependency_versions(imports))
    /\ UNCHANGED <<config, last>>

NextStack ==
    \/ GetRsyncVersion
    \/ GetStack
    \/ GetDependencyVersions

SpecStack == InitStack /\ [][NextStack]_vars

---------------------------------------------------------------------------
(* Properties of the Config store *)

\* the canonical path a key denotes
Canonical(path) == expanduser(path)

NoTwoForOnePath(d) ==
    \A i, j \in 1..Len(d) : i # j => Canonical(d[i].key) # Canonical(d[j].key)

\* C1: neither mapping ever holds two entries whose keys denote the same
\* canonical path, so one chest directory registered through "~" and through
\* its expanded form is one entry.
C1_OneEntryPerCanonicalPath ==
    NoTwoForOnePath(config.chests) /\ NoTwoForOnePath(config.saves)

\* every lookup the load makes of a registered directory answers what it
\* answered when the entry was registered
AsRegistered(cfg, fs) ==
    /\ \A i \in 1..Len(cfg.chests) :
          LET dir == expanduser(cfg.chests[i].key)
          IN  dir \in DOMAIN fs.chest
                 => fs.chest[dir] = [err |-> NoError, rev |-> cfg.chests[i].val.rev]
    /\ \A i \in 1..Len(cfg.saves) :
          LET dir == cfg.saves[i].val.root
          IN  dir \in DOMAIN fs.save
                 => fs.save[dir] = [err |-> NoError, rev |-> cfg.saves[i].val.rev]

\* C2: loading what the store writes, the collaborators answering as they
\* did at registration, gives a store with the same chest keys and the same
\* save keys.  (Stated with MINECRAFT_ROOT unset during the load, so that
\* the chest the constructor adds plays no part.)
C2_RoundTripKeepsKeys ==
    [][(/\ last'.op = "from_config"
        /\ last'.arg.doc = write(config)
        /\ last'.arg.env = <<>>
        /\ AsRegistered(config, last'.arg.fs))
          => (/\ last'.raised = NoError
              /\ Keys(config'.chests) = Keys(config.chests)
              /\ Keys(config'.saves) = Keys(config.saves))]_vars

\* C3: a direct registration whose collaborator raises a validation or an
\* I/O error hands that error to the caller and leaves both mappings as
\* they were, the entry stored under that path included.
C3_FailedRegistrationChangesNothing ==
    [][(/\ last'.op \in {"register_enderchest", "register_save"}
        /\ ~expanduser_raises(last'.arg.path)
        /\ last'.arg.answer.err \in Errors)
          => (/\ last'.raised = last'.arg.answer.err
              /\ config' = config)]_vars

\* a registration of a stored chest path has just failed
C3_Witness ==
    /\ last.op = "register_enderchest"
    /\ last.raised \in Errors
    /\ last.arg.path \in Keys(config.chests)

\* the registration of a listed chest entry succeeds under fs
ChestSucceeds(entry, fs) ==
    /\ ~expanduser_raises(Path(entry))
    /\ Answer(fs.chest, expanduser(Path(entry))).err = NoError

\* the registration of a listed save entry succeeds under fs
SaveSucceeds(entry, fs) ==
    /\ ~expanduser_raises(Path(entry))
    /\ Answer(fs.save, Parent(expanduser(Path(entry)))).err = NoError

\* C4: a load of a well-formed file returns without raising, tries every
\* listed path (each one that fails is logged), and returns a store holding
\* exactly the listed entries whose registration succeeds.
C4_LoadKeepsExactlyTheValidEntries ==
    (last.op = "from_config" /\ TomlLoads(last.arg.doc).ok) =>
        LET listed == TomlLoads(last.arg.doc)
            fs == last.arg.fs
        IN  /\ last.raised = NoError
            /\ Keys(config.chests) =
                  {Path(listed.ender_chests[i]) :
                      i \in {j \in 1..Len(listed.ender_chests) :
                                ChestSucceeds(listed.ender_chests[j], fs)}}
            /\ Keys(config.saves) =
                  {Parent(expanduser(Path(listed.saves[i]))) :
                      i \in {j \in 1..Len(listed.saves) :
                                SaveSucceeds(listed.saves[j], fs)}}
            /\ Len(SelectSeq(last.log, LAMBDA m : m.msg = "chest")) =
                  Cardinality({j \in 1..Len(listed.ender_chests) :
                                  ~ChestSucceeds(listed.ender_chests[j], fs)})
            /\ Len(SelectSeq(last.log, LAMBDA m : m.msg = "save")) =
                  Cardinality({j \in 1..Len(listed.saves) :
                                  ~SaveSucceeds(listed.saves[j], fs)})

\* C5: constructing a Config never raises; with MINECRAFT_ROOT unset or
\* empty the store is empty, with a root whose registration fails the
\* failure is logged and the store is empty, and with a root whose
\* registration succeeds the store holds that one chest and no saves.
C5_ConstructionNeverRaises ==
    last.op = "Config" =>
        /\ last.raised = NoError
        /\ config.saves = <<>>
        /\ IF last.arg.env = <<>>
           THEN config.chests = <<>> /\ last.log = <<>>
           ELSE IF last.arg.answer.err = NoError
           THEN /\ KeyList(config.chests) = <<Path(last.arg.env)>>
                /\ last.log = <<>>
           ELSE /\ config.chests = <<>>
                /\ Len(last.log) = 1

Ascending(strs) ==
    \A i \in 1..(Len(strs) - 1) : StrLess(strs[i], strs[i + 1])

\* the strings a rendered list holds
Decoded(list) == [i \in 1..Len(list) |-> TomlString(list[i]).str]

\* C6: whatever the order of registration, each list that write emits is
\* strictly ascending and holds exactly the path strings of the keys of its
\* mapping.
C6_WrittenListsSortedAndExact ==
    last.op = "write" =>
        /\ Ascending(Decoded(last.ret.ender_chests))
        /\ Range(Decoded(last.ret.ender_chests)) = Keys(config.chests)
        /\ \A i \in 1..Len(last.ret.ender_chests) :
              last.ret.ender_chests[i] = JsonDumps(Decoded(last.ret.ender_chests)[i])
        /\ Ascending(Decoded(last.ret.saves))
        /\ Range(Decoded(last.ret.saves)) = Keys(config.saves)
        /\ \A i \in 1..Len(last.ret.saves) :
              last.ret.saves[i] = JsonDumps(Decoded(last.ret.saves)[i])

\* a store whose chests and saves were both registered in descending order
\* has been written
C6_Witness ==
    /\ last.op = "write"
    /\ Len(config.chests) = 2
    /\ StrLess(config.chests[2].key, config.chests[1].key)
    /\ Len(config.saves) = 2
    /\ StrLess(config.saves[2].key, config.saves[1].key)

\* C7: after a manifest path is registered there is exactly one save entry
\* for the root it resolves to, keyed by that root and holding the
\* descriptor of this (the later) registration; a root registered before
\* gains no second entry.
C7_OneSavePerRoot ==
    [][(last'.op = "register_save" /\ last'.raised = NoError) =>
          LET root == Parent(expanduser(last'.arg.path))
              held == {i \in 1..Len(config'.saves) :
                          Canonical(config'.saves[i].key) = root}
          IN  /\ Cardinality(held) = 1
              /\ \A i \in held :
                    /\ config'.saves[i].key = root
                    /\ config'.saves[i].val = GSB_Manifest(root, last'.arg.answer.rev)
              /\ root \in Keys(config.saves) => Len(config'.saves) = Len(config.saves)]_vars

\* the root of "~/m" was registered, then another root, then "~/m" again
\* with a new descriptor
C7_Witness ==
    /\ last.op = "register_save"
    /\ last.raised = NoError
    /\ last.arg.path = TildeM
    /\ Len(config.saves) = 2
    /\ config.saves[1] = [key |-> Home, val |-> GSB_Manifest(Home, 2)]

\* new is old with key k registered: in place if old has k, last if not
Upserted(old, new, k) ==
    /\ k \in Keys(new)
    /\ IF k \in Keys(old)
       THEN KeyList(new) = KeyList(old)
       ELSE KeyList(new) = Append(KeyList(old), k)
    /\ \A i \in 1..Len(old) : old[i].key # k => new[i] = old[i]

---------------------------------------------------------------------------
(* Properties of the stack report *)

\* the MAJOR.MINOR.PATCH text the pattern matched in head
VersionText(head) ==
    LET m == RsyncMatch(head)
        size == Len(m.groups[1]) + Len(m.groups[2]) + Len(m.groups[3]) + 2
    IN  SubSeq(head, m.span[2] - size + 1, m.span[2])

TooOld(head) ==
    LET m == RsyncMatch(head)
    IN  \/ ToInt(m.groups[1]) < 3
        \/ (ToInt(m.groups[1]) = 3 /\ ToInt(m.groups[2]) < 2)

\* C8: the probe returns the empty string when the first line does not
\* match or the version is below 3.2, and the version substring otherwise
\* ("rsync version 3.2.0" gives "3.2.0").
C8_ProbeReturnsVersionSubstring ==
    (/\ report.op = "_get_rsync_version"
     /\ report.arg.kind = "ran"
     /\ report.arg.decodable
     /\ report.arg.stderr # "undecodable"
     /\ report.arg.lines # <<>>) =>
        LET head == report.arg.lines[1]
        IN  /\ report.raised = NoError
            /\ report.ret = IF RsyncMatch(head).matched /\ ~TooOld(head)
                            THEN VersionText(head)
                            ELSE <<>>

\* C9: get_stack and get_dependency_versions never raise; whatever the
\* rsync run and the imports do, they return their fixed keys, with the
\* empty string for a component that is absent or unusable.
C9_ReportsNeverRaise ==
    /\ report.op = "get_stack" =>
          /\ report.raised = NoError
          /\ DOMAIN report.ret = {"os", "architecture", "Python", "Rsync"}
          /\ (report.arg.kind # "ran" \/ ~report.arg.decodable \/ report.arg.lines = <<>>)
                => report.ret.Rsync = <<>>
    /\ report.op = "get_dependency_versions" =>
          /\ report.raised = NoError
          /\ DOMAIN report.ret = Range(Components)
          /\ \A c \in Range(Components) :
                report.arg[c] # "version" => report.ret[c] = <<>>

=============================================================================
